---- MODULE Spec2Model ----
(***************************************************************************)
(* File lifecycle, quota ledger and share links of the drive application.  *)
(*                                                                         *)
(* Each action is one HTTP handler, run to completion (one request at a    *)
(* time).  Sizes are counted in GiB, so the 2 GiB upload limit is 2 and    *)
(* the default 5 GiB storage limit is 5.  File ids are allocated in        *)
(* creation order, so a larger id means a later uploadedAt.  updatedAt is  *)
(* not modelled.  Share tokens (crypto.randomBytes) are fresh values.      *)
(***************************************************************************)
EXTENDS Integers, Sequences, FiniteSets, TLC

\* ---------------------------------------------------------------- bounds
MaxFiles == 2      \* File documents ever created
MaxBlobs == 2      \* blob names ever generated
MaxTokens == 2     \* share tokens ever generated
MaxVideos == 2     \* YouTube videos a client refers to
MaxPageFiles == 3  \* File documents in a paginated listing
MaxPage == 3       \* page numbers requested
MaxLimit == 3      \* page sizes requested
MaxProcs == 2      \* requests in flight together
MaxUsed == 4       \* storageUsed explored where deleting a negative size raises it

\* ------------------------------------------------------ program constants
maxSize == 2                 \* 2 * 1024^3 bytes
DefaultStorageLimit == 5     \* 5 * 1024^3 bytes

Users == {"u1", "u2"}
Anon == "anon"               \* a request without a session
Sessions == Users \cup {Anon}
Ids == 1..MaxFiles
BlobNames == 1..MaxBlobs
Tokens == 1..MaxTokens
NoToken == 0                 \* shareToken: null / undefined
Unset == 0                   \* deletedAt absent
NoId == 0

\* User.storageLimit as stored: u1 has a custom limit, u2 has none stored (falsy)
storageLimitOf == [u \in Users |-> IF u = "u1" THEN 3 ELSE 0]

\* The files a client has at hand (name, size in GiB, MIME type as <<type, subtype>>)
Catalogue ==
  { [name |-> <<"a">>,      size |-> 1, mime |-> <<"image", "png">>],
    [name |-> <<"A", "b">>, size |-> 2, mime |-> <<"application", "pdf">>],
    [name |-> <<"a">>,      size |-> 3, mime |-> <<"video", "mp4">>] }

Filters == {"all", "images", "videos", "pdfs", "docs", "starred", "recent", "trash"}
Searches == { <<>>, <<"B">> }

VARIABLES
  files,        \* the File collection: id -> document
  nextId,       \* next ObjectId
  storageUsed,  \* User.storageUsed
  blobs,        \* blob names present in the container
  sasIssued,    \* blob names a write credential was issued for
  nextBlob,     \* next generated blob name
  tokenCount,   \* share tokens generated so far
  agedUpTo,     \* files with id <= agedUpTo were uploaded more than 7 days ago
  resp,         \* the response of the last request
  before,       \* history: the request before the last, if it was an admitted
                \* sas-token, share or unshare request
  chain,        \* history: register -> soft-delete -> permanent-delete of one file
  snap,         \* history: each trashed file's document before its soft-delete
  revoked,      \* history: <<file id, share token>> of every revoked token
  purged,       \* history: share tokens of permanently deleted files
  inflight      \* the requests in flight together: each one's position and locals

vars == <<files, nextId, storageUsed, blobs, sasIssued, nextBlob, tokenCount,
          agedUpTo, resp, before, chain, snap, revoked, purged, inflight>>

\* --------------------------------------------------------------- helpers
Procs == 1..MaxProcs

\* a request slot before its request arrives
Idle == [ op |-> "idle", pc |-> "idle", user |-> Anon, id |-> NoId, blob |-> 0,
          size |-> 0, read |-> 0, status |-> 0, saved |-> FALSE, wrote |-> 0 ]

Max(a, b) == IF a >= b THEN a ELSE b

Resp(op, u, id, status, val) ==
  [op |-> op, user |-> u, id |-> id, status |-> status, val |-> val]

NoResp == Resp("none", Anon, NoId, 0, 0)
NoChain == [id |-> NoId, stage |-> 0, base |-> 0, user |-> Anon]


\* user.storageUsed || 0  (storageUsed is always a number here)
currentUsage(u) == storageUsed[u]

\* user.storageLimit || 5 * 1024 * 1024 * 1024
storageLimit(u) ==
  IF storageLimitOf[u] = 0 THEN DefaultStorageLimit ELSE storageLimitOf[u]

UrlOf(b) == <<"blob", b>>

documentTypes ==
  { <<"application", "msword">>, <<"application", "vnd.ms-excel">>,
    <<"application", "vnd.ms-powerpoint">>, <<"text", "plain">>,
    <<"text", "csv">>, <<"application", "rtf">> }

getFileType(mimeType) ==
  IF mimeType[1] = "image" THEN "image"
  ELSE IF mimeType[1] = "video" THEN "video"
  ELSE IF mimeType = <<"application", "pdf">> THEN "pdf"
  ELSE IF mimeType \in documentTypes THEN "document"
  ELSE "other"

unauthorized_never(s) == FALSE

\* !session?.user?.id
unauthorized(s) == s = Anon

\* User.findById(session.user.id) finds a document
userExists(u) == u \in Users

findOne_anyOwner(id, u, deleted) ==
  /\ id \in DOMAIN files
  /\ files[id].isDeleted = deleted

findOne_anyState(id, u, deleted) ==
  /\ id \in DOMAIN files
  /\ files[id].userId = u

\* File.findOne({_id, userId, isDeleted})
findOne(id, u, deleted) ==
  /\ id \in DOMAIN files
  /\ files[id].userId = u
  /\ files[id].isDeleted = deleted

\* every request records its response, and what the request before it was
Reply(r) ==
  /\ resp' = r
  /\ before' = IF resp.op \in {"sas", "share", "unshare"} /\ resp.status = 200
               THEN resp ELSE NoResp

\* snapshots are kept for trashed files (and the file just restored)
SnapKeep(fs, extra) ==
  [i \in {j \in DOMAIN snap \cap DOMAIN fs : fs[j].isDeleted \/ j \in extra} |-> snap[i]]

RemoveDoc(id) == [i \in DOMAIN files \ {id} |-> files[i]]

\* history of the register / soft-delete / permanent-delete chain: any request
\* of the chain's user other than the expected next step ends the chain
ChainOther(u) ==
  chain' = IF chain.user = u THEN NoChain ELSE chain

Init ==
  /\ files = << >>
  /\ nextId = 1
  /\ storageUsed = [u \in Users |-> 0]
  /\ blobs = {}
  /\ sasIssued = {}
  /\ nextBlob = 1
  /\ tokenCount = 0
  /\ agedUpTo = 0
  /\ resp = NoResp
  /\ before = NoResp
  /\ chain = NoChain
  /\ snap = << >>
  /\ revoked = {}
  /\ purged = {}
  /\ inflight = [p \in Procs |-> Idle]

\* a request that fails: only the response changes
FailWith(op, u, id, status, error) ==
  /\ Reply(Resp(op, u, id, status, error))
  /\ ChainOther(u)
  /\ snap' = SnapKeep(files, {})
  /\ UNCHANGED <<files, nextId, storageUsed, blobs, sasIssued, nextBlob,
                 tokenCount, agedUpTo, revoked, purged, inflight>>

Fail(op, u, id, status) == FailWith(op, u, id, status, 0)

\* new File({...}) with the schema defaults
NewFile(u, name, originalName, size, mimeType, blobUrl, blobName) ==
  [ userId |-> u, name |-> name, originalName |-> originalName, size |-> size,
    mimeType |-> mimeType, fileType |-> getFileType(mimeType),
    blobUrl |-> blobUrl, blobName |-> blobName,
    isDeleted |-> FALSE, deletedAt |-> Unset, isStarred |-> FALSE,
    isPublic |-> FALSE, shareToken |-> NoToken, isYouTube |-> FALSE ]

blobExists_trusting(b, providerError) == TRUE

\* blobExists: a provider error reads as "absent"
blobExists(b, providerError) == (~providerError) /\ b \in blobs

\* deleteFileFromBlob: deleteIfExists, a provider error leaves the blob in place
deleteFileFromBlob(b, providerError) ==
  IF providerError THEN blobs ELSE blobs \ {b}

blobDeleteThrows_propagates(providerError) == providerError

\* deleteFileFromBlob catches every error and returns false
blobDeleteThrows(providerError) == FALSE

uploadThrows_swallowed(providerError) == FALSE

\* uploadFileToBlob rethrows: 'Failed to upload file to storage'
uploadThrows(providerError) == providerError

markDeleted_unshares(f) ==
  [f EXCEPT !.isDeleted = TRUE, !.shareToken = NoToken, !.isPublic = FALSE]

\* file.isDeleted = true
markDeleted(f) == [f EXCEPT !.isDeleted = TRUE]

\* { isDeleted: false, $unset: { deletedAt: 1 } }
restoreDoc(f) == [f EXCEPT !.isDeleted = FALSE, !.deletedAt = Unset]

removeSharing_notSaved(f) == f

\* file.shareToken = undefined; file.isPublic = false
removeSharing(f) == [f EXCEPT !.shareToken = NoToken, !.isPublic = FALSE]

blobNameTaken_never(b) == FALSE

\* the unique index on File.blobName
blobNameTaken(b) == \E i \in DOMAIN files : files[i].blobName = b

exceedsLimit_ignoresSize(u, size) == currentUsage(u) > storageLimit(u)

\* an admission check that also counts the credentials not yet registered
exceedsLimit_reserving(u, size) ==
  currentUsage(u) + size * (1 + Cardinality({b \in sasIssued : ~blobNameTaken(b)}))
    > storageLimit(u)

\* the storage-limit check of the upload handlers
exceedsLimit(u, size) == currentUsage(u) + size > storageLimit(u)

\* user.storageUsed = Math.max(0, (user.storageUsed || 0) - file.size)
releaseQuota(u, size) == Max(0, currentUsage(u) - size)

\* ------------------------------------------------ POST /upload/sas-token
UploadSasToken(s, d, missing) ==
  IF unauthorized(s) THEN Fail("sas", s, NoId, 401)
  ELSE IF missing \/ d.size = 0 THEN Fail("sas", s, NoId, 400)
  ELSE IF d.size > maxSize THEN Fail("sas", s, NoId, 400)
  ELSE IF ~userExists(s) THEN Fail("sas", s, NoId, 404)
  ELSE IF exceedsLimit(s, d.size) THEN Fail("sas", s, NoId, 400)
  ELSE /\ nextBlob <= MaxBlobs
       /\ sasIssued' = sasIssued \cup {nextBlob}
       /\ nextBlob' = nextBlob + 1
       /\ Reply(Resp("sas", s, NoId, 200, [blobName |-> nextBlob, fileSize |-> d.size]))
       /\ ChainOther(s)
       /\ snap' = SnapKeep(files, {})
       /\ UNCHANGED <<files, nextId, storageUsed, blobs, tokenCount, agedUpTo, revoked, purged,
                 inflight>>

\* the client PUTs the bytes to a blob it holds a write credential for
ClientPutBlob(b) ==
  /\ b \in sasIssued
  /\ b \notin blobs
  /\ blobs' = blobs \cup {b}
  /\ UNCHANGED <<files, nextId, storageUsed, sasIssued, nextBlob, tokenCount,
                 agedUpTo, resp, before, chain, snap, revoked, purged,
                 inflight>>

\* -------------------------------------------------- POST /upload/register
\* missing: the request field left out ("none" when all six are sent)
UploadRegister(s, d, missing, b, providerError) ==
  LET fileName == IF missing = "fileName" THEN << >> ELSE d.name
      originalName == IF missing = "originalName" THEN << >> ELSE d.name
      fileSize == IF missing = "fileSize" THEN 0 ELSE d.size
      name == IF originalName # << >> THEN originalName ELSE fileName
  IN
  IF unauthorized(s) THEN Fail("register", s, NoId, 401)
  ELSE IF \/ fileName = << >> \/ fileSize = 0
          \/ missing \in {"mimeType", "blobName", "blobUrl"}
       THEN FailWith("register", s, NoId, 400, "Missing required fields")
  ELSE IF ~blobExists(b, providerError)
       THEN FailWith("register", s, NoId, 400, "File upload verification failed")
  ELSE IF ~userExists(s) THEN Fail("register", s, NoId, 404)
  ELSE IF blobNameTaken(b) THEN Fail("register", s, NoId, 500)
  ELSE /\ nextId <= MaxFiles
       /\ files' = files @@ (nextId :> NewFile(s, name, name, fileSize, d.mime, UrlOf(b), b))
       /\ nextId' = nextId + 1
       /\ storageUsed' = [storageUsed EXCEPT ![s] = currentUsage(s) + fileSize]
       /\ Reply(Resp("register", s, nextId, 200, 0))
       /\ chain' = [id |-> nextId, stage |-> 1, base |-> storageUsed[s], user |-> s]
       /\ snap' = SnapKeep(files, {})
       /\ UNCHANGED <<blobs, sasIssued, nextBlob, tokenCount, agedUpTo, revoked, purged,
                 inflight>>

\* ------------------------------------------------------------ POST /upload
Upload(s, d, noFile, providerError) ==
  IF unauthorized(s) THEN Fail("upload", s, NoId, 401)
  ELSE IF noFile THEN Fail("upload", s, NoId, 400)
  ELSE IF d.size > maxSize THEN Fail("upload", s, NoId, 400)
  ELSE IF uploadThrows(providerError) THEN Fail("upload", s, NoId, 500)
  ELSE /\ nextBlob <= MaxBlobs
       /\ blobs' = blobs \cup {nextBlob}
       /\ nextBlob' = nextBlob + 1
       /\ ChainOther(s)
       /\ snap' = SnapKeep(files, {})
       /\ UNCHANGED <<sasIssued, tokenCount, agedUpTo, revoked, purged, inflight>>
       /\ IF ~userExists(s)
          THEN /\ Reply(Resp("upload", s, NoId, 404, 0))
               /\ UNCHANGED <<files, nextId, storageUsed, inflight>>
          ELSE IF exceedsLimit(s, d.size)
          THEN /\ Reply(Resp("upload", s, NoId, 400, 0))
               /\ UNCHANGED <<files, nextId, storageUsed, inflight>>
          ELSE /\ nextId <= MaxFiles
               /\ files' = files @@
                    (nextId :> NewFile(s, d.name, d.name, d.size, d.mime, UrlOf(nextBlob), nextBlob))
               /\ nextId' = nextId + 1
               /\ storageUsed' = [storageUsed EXCEPT ![s] = currentUsage(s) + d.size]
               /\ Reply(Resp("upload", s, nextId, 200, 0))

\* -------------------------------------------------- DELETE /files/{id}
DeleteFile(s, id, providerError) ==
  IF unauthorized(s) THEN Fail("delete", s, id, 401)
  ELSE IF ~findOne(id, s, FALSE) THEN Fail("delete", s, id, 404)
  ELSE IF blobDeleteThrows(providerError) THEN Fail("delete", s, id, 500)
  ELSE /\ blobs' = deleteFileFromBlob(files[id].blobName, providerError)
       /\ storageUsed' = IF userExists(s)
                         THEN [storageUsed EXCEPT ![s] = releaseQuota(s, files[id].size)]
                         ELSE storageUsed
       /\ files' = [files EXCEPT ![id] = markDeleted(files[id])]
       /\ Reply(Resp("delete", s, id, 200, 0))
       /\ chain' = IF chain.user = s
                   THEN IF chain.id = id /\ chain.stage = 1
                        THEN [chain EXCEPT !.stage = 2] ELSE NoChain
                   ELSE chain
       /\ snap' = (id :> files[id]) @@ SnapKeep(files, {})
       /\ UNCHANGED <<nextId, sasIssued, nextBlob, tokenCount, agedUpTo, revoked, purged,
                 inflight>>

\* ------------------------------------------- POST /files/{id}/restore
RestoreFile(s, id) ==
  IF unauthorized(s) THEN Fail("restore", s, id, 401)
  ELSE IF ~findOne(id, s, TRUE) THEN Fail("restore", s, id, 404)
  ELSE /\ files' = [files EXCEPT ![id] = restoreDoc(files[id])]
       /\ Reply(Resp("restore", s, id, 200, 0))
       /\ ChainOther(s)
       /\ snap' = SnapKeep(files', {id})
       /\ UNCHANGED <<nextId, storageUsed, blobs, sasIssued, nextBlob, tokenCount,
                      agedUpTo, revoked, purged, inflight>>

\* ---------------------------------- DELETE /files/{id}/permanent-delete
PermanentDelete(s, id, providerError) ==
  IF unauthorized(s) THEN Fail("permanentDelete", s, id, 401)
  ELSE IF ~findOne(id, s, TRUE) THEN Fail("permanentDelete", s, id, 404)
  ELSE IF blobDeleteThrows(providerError) THEN Fail("permanentDelete", s, id, 500)
  ELSE /\ blobs' = deleteFileFromBlob(files[id].blobName, providerError)
       /\ storageUsed' = IF userExists(s)
                         THEN [storageUsed EXCEPT ![s] = releaseQuota(s, files[id].size)]
                         ELSE storageUsed
       /\ files' = RemoveDoc(id)
       /\ Reply(Resp("permanentDelete", s, id, 200, 0))
       /\ chain' = IF chain.user = s
                   THEN IF chain.id = id /\ chain.stage = 2
                        THEN [chain EXCEPT !.stage = 3] ELSE NoChain
                   ELSE chain
       /\ snap' = SnapKeep(files', {})
       /\ purged' = purged \cup ({files[id].shareToken} \ {NoToken})
       /\ UNCHANGED <<nextId, sasIssued, nextBlob, tokenCount, agedUpTo, revoked,
                 inflight>>

\* --------------------------------------------- PATCH /files/{id}/rename
\* the characters String.prototype.trim removes
Whitespace == {" ", "\t"}

RECURSIVE trimStart(_)
trimStart(w) ==
  IF w # << >> /\ Head(w) \in Whitespace THEN trimStart(Tail(w)) ELSE w

RECURSIVE trimEnd(_)
trimEnd(w) ==
  IF w # << >> /\ w[Len(w)] \in Whitespace THEN trimEnd(SubSeq(w, 1, Len(w) - 1)) ELSE w

\* name.trim()
trim(w) == trimEnd(trimStart(w))

invalidName_emptyOnly(n) == n.kind # "string" \/ n.text = << >>

\* !name || typeof name !== 'string' || name.trim() === ''
\* n.kind: "absent" (no name in the body), "number" or "string"
invalidName(n) ==
  \/ n.kind = "absent"
  \/ n.kind # "string"
  \/ n.text = << >>
  \/ trim(n.text) = << >>

Rename(s, id, n) ==
  IF unauthorized(s) THEN Fail("rename", s, id, 401)
  ELSE IF invalidName(n) THEN FailWith("rename", s, id, 400, n)
  ELSE IF ~findOne(id, s, FALSE) THEN FailWith("rename", s, id, 404, n)
  ELSE /\ files' = [files EXCEPT ![id].name = trim(n.text)]
       /\ Reply(Resp("rename", s, id, 200, n))
       /\ ChainOther(s)
       /\ snap' = SnapKeep(files, {})
       /\ UNCHANGED <<nextId, storageUsed, blobs, sasIssued, nextBlob, tokenCount,
                      agedUpTo, revoked, purged, inflight>>

\* ------------------------------------------------ POST /files/{id}/star
ToggleStar(s, id) ==
  IF unauthorized(s) THEN Fail("star", s, id, 401)
  ELSE IF ~findOne(id, s, FALSE) THEN Fail("star", s, id, 404)
  ELSE /\ files' = [files EXCEPT ![id].isStarred = ~files[id].isStarred]
       /\ Reply(Resp("star", s, id, 200, 0))
       /\ ChainOther(s)
       /\ snap' = SnapKeep(files, {})
       /\ UNCHANGED <<nextId, storageUsed, blobs, sasIssued, nextBlob, tokenCount,
                      agedUpTo, revoked, purged, inflight>>

\* ----------------------------------------------- POST /files/{id}/share
newShareToken_fixed == NoToken + 1

\* crypto.randomBytes(8).toString('hex'): a token never generated before
newShareToken == tokenCount + 1

ShareIssue(s, id) ==
  IF unauthorized(s) THEN Fail("share", s, id, 401)
  ELSE IF ~findOne(id, s, FALSE) THEN Fail("share", s, id, 404)
  ELSE /\ ChainOther(s)
       /\ snap' = SnapKeep(files, {})
       /\ UNCHANGED <<nextId, storageUsed, blobs, sasIssued, nextBlob, agedUpTo, revoked, purged,
                 inflight>>
       /\ IF files[id].shareToken = NoToken
          THEN /\ tokenCount < MaxTokens
               /\ tokenCount' = tokenCount + 1
               /\ files' = [files EXCEPT ![id].shareToken = newShareToken,
                                         ![id].isPublic = TRUE]
               /\ Reply(Resp("share", s, id, 200, newShareToken))
          ELSE /\ UNCHANGED <<files, tokenCount, inflight>>
               /\ Reply(Resp("share", s, id, 200, files[id].shareToken))

\* --------------------------------------------- DELETE /files/{id}/share
ShareRevoke(s, id) ==
  IF unauthorized(s) THEN Fail("unshare", s, id, 401)
  ELSE IF ~findOne(id, s, FALSE) THEN Fail("unshare", s, id, 404)
  ELSE /\ files' = [files EXCEPT ![id] = removeSharing(files[id])]
       /\ revoked' = revoked \cup {<<id, t>> : t \in {files[id].shareToken} \ {NoToken}}
       /\ Reply(Resp("unshare", s, id, 200, files[id].shareToken))
       /\ ChainOther(s)
       /\ snap' = SnapKeep(files, {})
       /\ UNCHANGED <<nextId, storageUsed, blobs, sasIssued, nextBlob, tokenCount, agedUpTo,
                      purged, inflight>>

\* ---------------------------------------------------------- POST /youtube
YouTubeUrls == 1..MaxVideos
VideoIds == 1..MaxVideos
NoVideoId == 0               \* neither videoId nor playlistId in the body
YouTubeTypes == {"youtube-video", "youtube-playlist"}

YouTubeUrlOf(url) == <<"youtube", url>>

\* videoId || playlistId || `youtube-${Date.now()}`: blob names past the
\* generated ones stand for the ids, and past those for the timestamped names
youTubeBlobName(videoId) ==
  IF videoId # NoVideoId THEN MaxBlobs + videoId
  ELSE MaxBlobs + MaxVideos + nextId

\* File.findOne({userId, blobUrl: url, isDeleted: false})
existingFile(u, url) ==
  { i \in DOMAIN files : /\ files[i].userId = u
                         /\ files[i].blobUrl = YouTubeUrlOf(url)
                         /\ ~files[i].isDeleted }

youTubeMimeType(type) ==
  IF type = "youtube-playlist" THEN <<"application", "x-youtube-playlist">>
  ELSE <<"video", "youtube">>

AddYouTube(s, type, url, videoId, missing) ==
  IF unauthorized(s) THEN Fail("youtube", s, NoId, 401)
  ELSE IF missing THEN Fail("youtube", s, NoId, 400)
  ELSE IF existingFile(s, url) # {} THEN Fail("youtube", s, NoId, 409)
  ELSE IF blobNameTaken(youTubeBlobName(videoId)) THEN Fail("youtube", s, NoId, 500)
  ELSE /\ nextId <= MaxFiles
       /\ files' = files @@
            (nextId :> [ NewFile(s, <<"a">>, <<"a">>, 0, youTubeMimeType(type),
                                 YouTubeUrlOf(url), youTubeBlobName(videoId))
                         EXCEPT !.fileType = "video", !.isYouTube = TRUE ])
       /\ nextId' = nextId + 1
       /\ Reply(Resp("youtube", s, nextId, 200, 0))
       /\ ChainOther(s)
       /\ snap' = SnapKeep(files, {})
       /\ UNCHANGED <<storageUsed, blobs, sasIssued, nextBlob, tokenCount, agedUpTo,
                      revoked, purged, inflight>>

\* ------------------------------------------------------ GET /user/storage
GetStorage(s) ==
  IF unauthorized(s) THEN Fail("storage", s, NoId, 401)
  ELSE IF ~userExists(s) THEN Fail("storage", s, NoId, 404)
  ELSE /\ Reply(Resp("storage", s, NoId, 200,
                     [storageUsed |-> currentUsage(s), storageLimit |-> storageLimit(s)]))
       /\ ChainOther(s)
       /\ snap' = SnapKeep(files, {})
       /\ UNCHANGED <<files, nextId, storageUsed, blobs, sasIssued, nextBlob,
                      tokenCount, agedUpTo, revoked, purged, inflight>>

\* ---------------------------------------------------- GET /share/{token}
sharedFiles_ignoresTrash(token) ==
  { i \in DOMAIN files : files[i].shareToken = token /\ files[i].isPublic }

\* File.findOne({shareToken, isPublic: true, isDeleted: false})
sharedFiles(token) ==
  { i \in DOMAIN files : /\ files[i].shareToken = token
                         /\ files[i].isPublic
                         /\ ~files[i].isDeleted }

resolveShare(token) ==
  IF sharedFiles(token) = {} THEN NoId ELSE CHOOSE i \in sharedFiles(token) : TRUE

GetShare(token) ==
  /\ Reply(IF resolveShare(token) = NoId
           THEN Resp("getShare", Anon, NoId, 404, token)
           ELSE Resp("getShare", Anon, resolveShare(token), 200, token))
  /\ snap' = SnapKeep(files, {})
  /\ UNCHANGED <<files, nextId, storageUsed, blobs, sasIssued, nextBlob, tokenCount,
                 agedUpTo, chain, revoked, purged, inflight>>

\* ------------------------------------------------------------ GET /files
Lower(c) == IF c = "A" THEN "a" ELSE IF c = "B" THEN "b" ELSE c

LowerAll(w) == [k \in 1..Len(w) |-> Lower(w[k])]

\* { $regex: search, $options: 'i' } for a search text without metacharacters
regexMatch(search, text) ==
  \E k \in 0..(Len(text) - Len(search)) :
     SubSeq(LowerAll(text), k + 1, k + Len(search)) = LowerAll(search)

typeMap(filter) ==
  CASE filter = "images" -> {"image"}
    [] filter = "videos" -> {"video"}
    [] filter = "pdfs" -> {"pdf"}
    [] filter = "docs" -> {"document"}
    [] OTHER -> {}

FileTypes == {"image", "video", "pdf", "document", "other"}

\* the query object the handler builds; a key the query does not hold allows
\* every value.  For 'trash' the handler sets isDeleted and then deletes the key.
buildQuery(u, filter, search) ==
  [ userId |-> u,
    isDeleted |-> IF filter = "trash" THEN BOOLEAN ELSE {FALSE},
    search |-> search,
    isStarred |-> IF filter = "starred" THEN {TRUE} ELSE BOOLEAN,
    recent |-> (filter = "recent"),
    fileType |-> IF typeMap(filter) # {} THEN typeMap(filter) ELSE FileTypes ]

\* uploadedAt >= now - 7 days
isRecent(i) == i > agedUpTo

matches_anyOwner(i, q) ==
  /\ files[i].isDeleted \in q.isDeleted
  /\ q.search # << >> => \/ regexMatch(q.search, files[i].name)
                         \/ regexMatch(q.search, files[i].originalName)
  /\ files[i].isStarred \in q.isStarred
  /\ q.recent => isRecent(i)
  /\ files[i].fileType \in q.fileType

matches(i, q) ==
  /\ files[i].userId = q.userId
  /\ files[i].isDeleted \in q.isDeleted
  /\ q.search # << >> => \/ regexMatch(q.search, files[i].name)
                         \/ regexMatch(q.search, files[i].originalName)
  /\ files[i].isStarred \in q.isStarred
  /\ q.recent => isRecent(i)
  /\ files[i].fileType \in q.fileType

find(q) == { i \in DOMAIN files : matches(i, q) }

GetFiles(s, filter, search) ==
  IF unauthorized(s) THEN Fail("files", s, NoId, 401)
  ELSE /\ Reply(Resp("files", s, NoId, 200,
                     [filter |-> filter, search |-> search,
                      files |-> find(buildQuery(s, filter, search))]))
       /\ ChainOther(s)
       /\ snap' = SnapKeep(files, {})
       /\ UNCHANGED <<files, nextId, storageUsed, blobs, sasIssued, nextBlob,
                      tokenCount, agedUpTo, revoked, purged, inflight>>

\* ------------------------------------------- GET /files, page and limit
Min(a, b) == IF a <= b THEN a ELSE b

\* .sort({ uploadedAt: -1 }): the later upload, which has the larger id, first
RECURSIVE sortDescending(_)
sortDescending(S) ==
  IF S = {} THEN << >>
  ELSE LET newest == CHOOSE i \in S : \A j \in S : j <= i
       IN <<newest>> \o sortDescending(S \ {newest})

skipOf_pageTimesLimit(page, limit) == page * limit

\* const skip = (page - 1) * limit
skipOf(page, limit) == (page - 1) * limit

\* Math.ceil(totalCount / limit)
ceilDiv(n, limit) == (n + limit - 1) \div limit

\* find(query).sort().skip(skip).limit(limit) and countDocuments(query)
paginate(q, page, limit) ==
  LET sorted == sortDescending(find(q))
      totalCount == Len(sorted)
      skip == skipOf(page, limit)
      pageFiles == SubSeq(sorted, skip + 1, Min(skip + limit, totalCount))
  IN [ files |-> pageFiles,
       pagination |-> [ page |-> page, limit |-> limit, totalCount |-> totalCount,
                        totalPages |-> ceilDiv(totalCount, limit),
                        hasMore |-> skip + Len(pageFiles) < totalCount ] ]

GetFilesPage(s, filter, search, page, limit) ==
  IF unauthorized(s) THEN Fail("page", s, NoId, 401)
  ELSE /\ Reply(Resp("page", s, NoId, 200, paginate(buildQuery(s, filter, search), page, limit)))
       /\ ChainOther(s)
       /\ snap' = SnapKeep(files, {})
       /\ UNCHANGED <<files, nextId, storageUsed, blobs, sasIssued, nextBlob,
                      tokenCount, agedUpTo, revoked, purged, inflight>>

\* ------------------------------------------------------ GET /files/trash
trashedFiles(u) == { i \in DOMAIN files : files[i].userId = u /\ files[i].isDeleted }

GetTrash(s) ==
  IF unauthorized(s) THEN Fail("trash", s, NoId, 401)
  ELSE /\ Reply(Resp("trash", s, NoId, 200, trashedFiles(s)))
       /\ ChainOther(s)
       /\ snap' = SnapKeep(files, {})
       /\ UNCHANGED <<files, nextId, storageUsed, blobs, sasIssued, nextBlob,
                      tokenCount, agedUpTo, revoked, purged, inflight>>

\* time passes: the oldest recent file becomes older than 7 days
Tick ==
  /\ agedUpTo < nextId - 1
  /\ agedUpTo' = agedUpTo + 1
  /\ UNCHANGED <<files, nextId, storageUsed, blobs, sasIssued, nextBlob, tokenCount,
                 resp, before, chain, snap, revoked, purged, inflight>>

\* ------------------------------------------------------------- requests
\* The requests tried in each state.  Inputs a handler never reads on the path
\* taken (everything after a missing field, ...) are fixed.
AnyDoc == CHOOSE d \in Catalogue : d.size = 1

\* an empty file: sent through the direct-upload path only
EmptyDoc == [name |-> <<"b">>, size |-> 0, mime |-> <<"text", "plain">>]

SasRequests ==
  { <<s, d, missing>> \in Users \X (Catalogue \cup {EmptyDoc}) \X BOOLEAN :
      missing => d = AnyDoc }

RegisterFields == {"none", "fileName", "originalName", "fileSize", "mimeType",
                   "blobName", "blobUrl"}

RegisterRequests ==
  { <<s, d, missing, b, providerError>> \in
      Users \X (Catalogue \cup {EmptyDoc}) \X RegisterFields \X BlobNames \X BOOLEAN :
      /\ missing \notin {"none", "originalName"} => (d = AnyDoc /\ b = 1 /\ ~providerError)
      /\ d = EmptyDoc => (missing = "none" /\ b = 1)
      /\ providerError => (d = AnyDoc /\ missing = "none") }

UploadRequests ==
  { <<s, d, noFile>> \in Users \X Catalogue \X BOOLEAN : noFile => d = AnyDoc }

\* requests of the quota ledger: both upload paths and the delete paths
QuotaNext ==
  \/ \E r \in SasRequests : UploadSasToken(r[1], r[2], r[3])
  \/ \E b \in BlobNames : ClientPutBlob(b)
  \/ \E r \in RegisterRequests : UploadRegister(r[1], r[2], r[3], r[4], r[5])
  \/ \E r \in UploadRequests : Upload(r[1], r[2], r[3], FALSE)
  \/ \E s \in Users, id \in Ids : DeleteFile(s, id, FALSE)
  \/ \E s \in Users, id \in Ids : RestoreFile(s, id)
  \/ \E s \in Users, id \in Ids : PermanentDelete(s, id, FALSE)

Spec == Init /\ [][QuotaNext]_vars

\* the handlers that move uploaded files between live, trash and gone
LifecycleNext(docs) ==
  \/ \E s \in Users, d \in docs : Upload(s, d, FALSE, FALSE)
  \/ \E s \in Users, id \in Ids : DeleteFile(s, id, FALSE)
  \/ \E s \in Users, id \in Ids : RestoreFile(s, id)
  \/ \E s \in Users, id \in Ids : PermanentDelete(s, id, FALSE)

\* listing: uploaded files are starred, trashed and listed while time passes
ListNext ==
  \/ LifecycleNext(Catalogue)
  \/ \E s \in Users, id \in Ids : ToggleStar(s, id)
  \/ \E s \in Users, filter \in Filters, search \in Searches : GetFiles(s, filter, search)
  \/ \E s \in Users : GetTrash(s)
  \/ Tick

SpecList == Init /\ [][ListNext]_vars

\* sharing: uploaded files are shared, revoked, resolved, trashed and restored
ShareNext ==
  \/ LifecycleNext({AnyDoc})
  \/ \E s \in Users, id \in Ids : ShareIssue(s, id)
  \/ \E s \in Users, id \in Ids : ShareRevoke(s, id)
  \/ \E token \in Tokens : GetShare(token)

SpecShare == Init /\ [][ShareNext]_vars

\* trash: every handler that writes a File record's fields
TrashNext ==
  \/ LifecycleNext({AnyDoc})
  \/ \E s \in Users, id \in Ids : ToggleStar(s, id)
  \/ \E s \in Users, id \in Ids : ShareIssue(s, id)
  \/ \E s \in Users, id \in Ids : ShareRevoke(s, id)

SpecTrash == Init /\ [][TrashNext]_vars

\* the names sent in rename requests (the last value is the rejected body of
\* the request, whatever else it holds)
NameOf(kind, text) == [kind |-> kind, text |-> text]

RenameRequests ==
  { NameOf("absent", << >>), NameOf("number", << >>), NameOf("string", << >>),
    NameOf("string", <<" ", "\t">>),
    NameOf("string", <<"\t", "c", " ", "d", " ">>) }

\* editing: every handler that addresses one file by its id; the files are
\* u1's, and both users send the requests
EditNext ==
  \/ Upload("u1", AnyDoc, FALSE, FALSE)
  \/ \E s \in Users, id \in Ids : DeleteFile(s, id, FALSE)
  \/ \E s \in Users, id \in Ids : RestoreFile(s, id)
  \/ \E s \in Users, id \in Ids : PermanentDelete(s, id, FALSE)
  \/ \E s \in Users, id \in Ids, n \in RenameRequests : Rename(s, id, n)
  \/ \E s \in Users, id \in Ids : ToggleStar(s, id)
  \/ \E s \in Users, id \in Ids : ShareIssue(s, id)
  \/ \E s \in Users, id \in Ids : ShareRevoke(s, id)

SpecEdit == Init /\ [][EditNext]_vars

\* direct upload: credentials are issued, blobs are put, registered and deleted
RegisterNext ==
  \/ \E s \in Users : UploadSasToken(s, AnyDoc, FALSE)
  \/ \E b \in BlobNames : ClientPutBlob(b)
  \/ \E r \in RegisterRequests : UploadRegister(r[1], r[2], r[3], r[4], r[5])
  \/ \E s \in Users, id \in Ids : DeleteFile(s, id, FALSE)
  \/ \E s \in Users, id \in Ids : PermanentDelete(s, id, FALSE)

SpecRegister == Init /\ [][RegisterNext]_vars

\* blob provider failures on the server-proxied upload and the delete paths
BlobNext ==
  \/ \E s \in Users, providerError \in BOOLEAN : Upload(s, AnyDoc, FALSE, providerError)
  \/ \E s \in Users, id \in Ids, providerError \in BOOLEAN : DeleteFile(s, id, providerError)
  \/ \E s \in Users, id \in Ids : RestoreFile(s, id)
  \/ \E s \in Users, id \in Ids, providerError \in BOOLEAN :
        PermanentDelete(s, id, providerError)

SpecBlob == Init /\ [][BlobNext]_vars

\* YouTube references are added, trashed, restored and purged
YouTubeRequests ==
  { <<s, type, url, videoId, missing>> \in
      Users \X YouTubeTypes \X YouTubeUrls \X (VideoIds \cup {NoVideoId}) \X BOOLEAN :
      missing => (type = "youtube-video" /\ url = 1 /\ videoId = NoVideoId) }

YouTubeNext ==
  \/ \E r \in YouTubeRequests : AddYouTube(r[1], r[2], r[3], r[4], r[5])
  \/ \E s \in Users : Upload(s, AnyDoc, FALSE, FALSE)
  \/ \E s \in Users, id \in Ids : DeleteFile(s, id, FALSE)
  \/ \E s \in Users, id \in Ids : RestoreFile(s, id)
  \/ \E s \in Users, id \in Ids : PermanentDelete(s, id, FALSE)

SpecYouTube == Init /\ [][YouTubeNext]_vars

\* a fileSize below zero, as a client may send it
NegativeDoc == [name |-> <<"a">>, size |-> 0 - 1, mime |-> <<"image", "png">>]

\* the quota ledger under registrations of any non-zero fileSize; each
\* soft-delete of a file of negative size raises storageUsed, without end
LedgerNext ==
  \/ \E s \in Users : UploadSasToken(s, AnyDoc, FALSE)
  \/ \E b \in BlobNames : ClientPutBlob(b)
  \/ \E s \in Users, d \in {AnyDoc, NegativeDoc}, b \in BlobNames :
        UploadRegister(s, d, "none", b, FALSE)
  \/ \E s \in Users, id \in Ids :
        DeleteFile(s, id, FALSE) /\ storageUsed'[s] <= MaxUsed
  \/ \E s \in Users, id \in Ids : RestoreFile(s, id)
  \/ \E s \in Users, id \in Ids : PermanentDelete(s, id, FALSE)

SpecLedger == Init /\ [][LedgerNext]_vars

\* every endpoint called without a session, while u1 uploads, trashes and
\* shares files and obtains upload credentials
AuthSessions == {"u1", Anon}

AuthNext ==
  \/ \E s \in AuthSessions : Upload(s, AnyDoc, FALSE, FALSE)
  \/ \E s \in AuthSessions : UploadSasToken(s, AnyDoc, FALSE)
  \/ \E b \in BlobNames : ClientPutBlob(b)
  \/ \E s \in AuthSessions, id \in Ids : DeleteFile(s, id, FALSE)
  \/ \E s \in AuthSessions, id \in Ids : ShareIssue(s, id)
  \/ GetFiles(Anon, "all", << >>)
  \/ GetTrash(Anon)
  \/ GetStorage(Anon)
  \/ \E b \in BlobNames : UploadRegister(Anon, AnyDoc, "none", b, FALSE)
  \/ AddYouTube(Anon, "youtube-video", 1, 1, FALSE)
  \/ \E id \in Ids : Rename(Anon, id, NameOf("string", <<"c">>))
  \/ \E id \in Ids : ToggleStar(Anon, id)
  \/ \E id \in Ids : RestoreFile(Anon, id)
  \/ \E id \in Ids : PermanentDelete(Anon, id, FALSE)
  \/ \E id \in Ids : ShareRevoke(Anon, id)
  \/ \E token \in Tokens : GetShare(token)

SpecAuth == Init /\ [][AuthNext]_vars

\* direct uploads of one 2 GiB file each: the clients ask for their credentials
\* before any of them registers, then put their blobs and register them
BigDoc == CHOOSE d \in Catalogue : d.size = 2

AdmissionNext ==
  \/ \E s \in Users : files = << >> /\ UploadSasToken(s, BigDoc, FALSE)
  \/ \E b \in BlobNames : ClientPutBlob(b)
  \/ \E s \in Users, b \in BlobNames : UploadRegister(s, BigDoc, "none", b, FALSE)

SpecAdmission == Init /\ [][AdmissionNext]_vars

\* ------------------------------------------- requests in flight together
\* Each await of a handler is a point where another request's steps can run.
\* A step leaves the response and the history variables of the
\* one-request-at-a-time actions alone; its outcome is kept in inflight.
NoneInFlight == \A p \in Procs : inflight[p].op = "idle"

\* request slots are taken in order
mayBegin(p) ==
  /\ inflight[p].op = "idle"
  /\ \A q \in 1..(p - 1) : inflight[q].op # "idle"

at(p, op, pc) == inflight[p].op = op /\ inflight[p].pc = pc

Goto(p, pc) == inflight' = [inflight EXCEPT ![p].pc = pc]

Done(p, status) ==
  inflight' = [inflight EXCEPT ![p].pc = "done", ![p].status = status]

savedUsage_atomic(read, current, delta) == current + delta

\* user.storageUsed = <value computed from the user document read earlier>;
\* user.save() sets the field to that value
savedUsage(read, current, delta) == read + delta

\* findById(session.user.id) into the handler's local user
FindUser(p, op, next) ==
  /\ at(p, op, "findUser")
  /\ inflight' = [inflight EXCEPT ![p].read = currentUsage(inflight[p].user),
                                  ![p].pc = next]
  /\ UNCHANGED <<files, nextId, storageUsed, blobs, sasIssued, nextBlob, tokenCount,
                 agedUpTo, resp, before, chain, snap, revoked, purged>>

\* user.save() with the value computed from the local user
SaveUser(p, op, value, next, status) ==
  /\ at(p, op, "saveUser")
  /\ storageUsed' = [storageUsed EXCEPT ![inflight[p].user] = value]
  /\ inflight' = [inflight EXCEPT ![p].saved = TRUE, ![p].wrote = value,
                                  ![p].pc = next, ![p].status = status]
  /\ UNCHANGED <<files, nextId, blobs, sasIssued, nextBlob, tokenCount,
                 agedUpTo, resp, before, chain, snap, revoked, purged>>

\* POST /upload/register: session, body and blobExists
RegisterBegin(p, s, d, b) ==
  /\ mayBegin(p)
  /\ inflight' = [inflight EXCEPT ![p] =
       [Idle EXCEPT !.op = "register", !.user = s, !.blob = b, !.size = d.size,
                    !.pc = IF blobExists(b, FALSE) THEN "findUser" ELSE "done",
                    !.status = IF blobExists(b, FALSE) THEN 0 ELSE 400]]
  /\ UNCHANGED <<files, nextId, storageUsed, blobs, sasIssued, nextBlob, tokenCount,
                 agedUpTo, resp, before, chain, snap, revoked, purged>>

RegisterFindUser(p) == FindUser(p, "register", "saveFile")

\* fileDocument.save(): the unique index on blobName rejects a second record
RegisterSaveFile(p) ==
  /\ at(p, "register", "saveFile")
  /\ IF blobNameTaken(inflight[p].blob)
     THEN /\ Done(p, 500)
          /\ UNCHANGED <<files, nextId>>
     ELSE /\ nextId <= MaxFiles
          /\ files' = files @@ (nextId :>
               NewFile(inflight[p].user, AnyDoc.name, AnyDoc.name, inflight[p].size,
                       AnyDoc.mime, UrlOf(inflight[p].blob), inflight[p].blob))
          /\ nextId' = nextId + 1
          /\ inflight' = [inflight EXCEPT ![p].id = nextId, ![p].pc = "saveUser"]
  /\ UNCHANGED <<storageUsed, blobs, sasIssued, nextBlob, tokenCount,
                 agedUpTo, resp, before, chain, snap, revoked, purged>>

\* user.storageUsed = currentUsage + fileSize
RegisterSaveUser(p) ==
  SaveUser(p, "register",
           savedUsage(inflight[p].read, currentUsage(inflight[p].user), inflight[p].size),
           "done", 200)

\* DELETE /files/{id} and DELETE /files/{id}/permanent-delete: File.findOne
DeleteBegin(p, op, s, id) ==
  /\ mayBegin(p)
  /\ op \in {"delete", "permanentDelete"}
  /\ LET found == findOne(id, s, op = "permanentDelete")
     IN inflight' = [inflight EXCEPT ![p] =
          [Idle EXCEPT !.op = op, !.user = s, !.id = id,
                       !.blob = IF found THEN files[id].blobName ELSE 0,
                       !.size = IF found THEN files[id].size ELSE 0,
                       !.pc = IF found THEN "deleteBlob" ELSE "done",
                       !.status = IF found THEN 0 ELSE 404]]
  /\ UNCHANGED <<files, nextId, storageUsed, blobs, sasIssued, nextBlob, tokenCount,
                 agedUpTo, resp, before, chain, snap, revoked, purged>>

\* deleteFileFromBlob(file.blobName)
DeleteBlob(p) ==
  /\ inflight[p].op \in {"delete", "permanentDelete"}
  /\ inflight[p].pc = "deleteBlob"
  /\ blobs' = deleteFileFromBlob(inflight[p].blob, FALSE)
  /\ Goto(p, "findUser")
  /\ UNCHANGED <<files, nextId, storageUsed, sasIssued, nextBlob, tokenCount,
                 agedUpTo, resp, before, chain, snap, revoked, purged>>

DeleteFindUser(p) ==
  \E op \in {"delete", "permanentDelete"} : FindUser(p, op, "saveUser")

\* user.storageUsed = Math.max(0, (user.storageUsed || 0) - file.size)
DeleteSaveUser(p) ==
  \E op \in {"delete", "permanentDelete"} :
    SaveUser(p, op,
             Max(0, savedUsage(inflight[p].read, currentUsage(inflight[p].user),
                               0 - inflight[p].size)),
             "saveFile", 0)

\* file.isDeleted = true; file.save(): fails when the document is gone
SoftDeleteSaveFile(p) ==
  /\ at(p, "delete", "saveFile")
  /\ IF inflight[p].id \in DOMAIN files
     THEN /\ files' = [files EXCEPT ![inflight[p].id] = markDeleted(files[inflight[p].id])]
          /\ Done(p, 200)
     ELSE /\ Done(p, 500)
          /\ UNCHANGED files
  /\ UNCHANGED <<nextId, storageUsed, blobs, sasIssued, nextBlob, tokenCount,
                 agedUpTo, resp, before, chain, snap, revoked, purged>>

\* File.findByIdAndDelete(id): no error when the document is gone
PermanentDeleteRemove(p) ==
  /\ at(p, "permanentDelete", "saveFile")
  /\ files' = RemoveDoc(inflight[p].id)
  /\ Done(p, 200)
  /\ UNCHANGED <<nextId, storageUsed, blobs, sasIssued, nextBlob, tokenCount,
                 agedUpTo, resp, before, chain, snap, revoked, purged>>

\* u1 prepares files and blobs one request at a time; then up to MaxProcs
\* requests arrive and run step by step
RaceNext ==
  \/ NoneInFlight /\ Upload("u1", AnyDoc, FALSE, FALSE)
  \/ NoneInFlight /\ UploadSasToken("u1", AnyDoc, FALSE)
  \/ NoneInFlight /\ \E b \in BlobNames : ClientPutBlob(b)
  \/ NoneInFlight /\ \E b \in BlobNames : UploadRegister("u1", AnyDoc, "none", b, FALSE)
  \/ NoneInFlight /\ \E id \in Ids : DeleteFile("u1", id, FALSE)
  \/ \E p \in Procs, s \in Users, b \in BlobNames : RegisterBegin(p, s, AnyDoc, b)
  \/ \E p \in Procs : RegisterFindUser(p)
  \/ \E p \in Procs : RegisterSaveFile(p)
  \/ \E p \in Procs : RegisterSaveUser(p)
  \/ \E p \in Procs, id \in Ids : DeleteBegin(p, "delete", "u1", id)
  \/ \E p \in Procs, id \in Ids : DeleteBegin(p, "permanentDelete", "u1", id)
  \/ \E p \in Procs : DeleteBlob(p)
  \/ \E p \in Procs : DeleteFindUser(p)
  \/ \E p \in Procs : DeleteSaveUser(p)
  \/ \E p \in Procs : SoftDeleteSaveFile(p)
  \/ \E p \in Procs : PermanentDeleteRemove(p)

SpecRace == Init /\ [][RaceNext]_vars

\* pagination: an unchanging collection of uploaded files is listed page by page
Pages == 1..MaxPage
Limits == 1..MaxLimit

\* the collection after n uploads of AnyDoc, the i-th by owner[i]
uploaded(n, owner) ==
  [i \in 1..n |-> NewFile(owner[i], AnyDoc.name, AnyDoc.name, AnyDoc.size, AnyDoc.mime, UrlOf(i), i)]

InitPage ==
  /\ \E n \in 0..MaxPageFiles : \E owner \in [1..n -> Users] :
       /\ files = uploaded(n, owner)
       /\ nextId = n + 1
       /\ nextBlob = n + 1
       /\ blobs = 1..n
       /\ storageUsed = [u \in Users |-> Cardinality({i \in 1..n : owner[i] = u}) * AnyDoc.size]
  /\ sasIssued = {}
  /\ tokenCount = 0
  /\ agedUpTo = 0
  /\ resp = NoResp
  /\ before = NoResp
  /\ chain = NoChain
  /\ snap = << >>
  /\ revoked = {}
  /\ purged = {}
  /\ inflight = [p \in Procs |-> Idle]

PageNext ==
  \E s \in Users, page \in Pages, limit \in Limits : GetFilesPage(s, "all", << >>, page, limit)

SpecPage == InitPage /\ [][PageNext]_vars

\* ================================================================ claims
RECURSIVE SumSizes(_)
SumSizes(S) ==
  IF S = {} THEN 0
  ELSE LET i == CHOOSE j \in S : TRUE IN files[i].size + SumSizes(S \ {i})

ownedFiles(u) == { i \in DOMAIN files : files[i].userId = u }

\* C1: after any sequence of register, soft-delete, restore and
\* permanent-delete requests each user's storageUsed equals the sum of size
\* over that user's File records that still exist, live or trashed.
C1_QuotaLedger == \A u \in Users : storageUsed[u] = SumSizes(ownedFiles(u))

\* C2: a file that is registered, then soft-deleted, then permanently deleted
\* with no other request of its owner in between leaves the owner's
\* storageUsed at its value before the registration.
C2_ReleasedOnce ==
  chain.stage = 3 => storageUsed[chain.user] = chain.base

\* C3 as stated: no admitted upload request (server-proxied upload, sas-token
\* request or registration) leaves storageUsed above storageLimit.
C3_NoAdmittedUploadExceeds ==
  (resp.op \in {"upload", "sas", "register"} /\ resp.status = 200)
    => storageUsed[resp.user] <= storageLimit(resp.user)

\* C3 as amended: an admitted server-proxied upload leaves storageUsed within
\* storageLimit, an admitted sas-token request fits the remaining quota, and a
\* registration that directly follows the caller's own admitted sas-token
\* request for the same fileSize leaves storageUsed within storageLimit.
C3_AdmissionWithinLimit ==
  /\ (resp.op = "upload" /\ resp.status = 200)
       => storageUsed[resp.user] <= storageLimit(resp.user)
  /\ (resp.op = "sas" /\ resp.status = 200)
       => storageUsed[resp.user] + resp.val.fileSize <= storageLimit(resp.user)
  /\ ( /\ resp.op = "register" /\ resp.status = 200
       /\ before.op = "sas" /\ before.user = resp.user
       /\ before.val.fileSize = files[resp.id].size )
       => storageUsed[resp.user] <= storageLimit(resp.user)

\* a registration right after its own admission that fills the quota exactly
C3_Witness ==
  /\ resp.op = "register" /\ resp.status = 200
  /\ before.op = "sas" /\ before.user = resp.user
  /\ before.val.fileSize = files[resp.id].size
  /\ storageUsed[resp.user] = storageLimit(resp.user)

\* C4: a sas-token request carrying fileName, fileSize and mimeType is rejected
\* with 400, issuing no credential and changing neither storageUsed nor the
\* File records, when storageUsed + fileSize > storageLimit; and it is admitted
\* when storageUsed + fileSize <= storageLimit and fileSize <= 2 GiB.
C4_SasAdmission ==
  [][ \A r \in SasRequests :
        (UploadSasToken(r[1], r[2], r[3]) /\ ~r[3]) =>
           IF storageUsed[r[1]] + r[2].size > storageLimit(r[1])
           THEN /\ resp'.status = 400
                /\ UNCHANGED <<storageUsed, files, sasIssued>>
           ELSE r[2].size <= maxSize =>
                  /\ resp'.status = 200
                  /\ resp'.val.blobName \in sasIssued' ]_vars

liveFiles(u) == { i \in ownedFiles(u) : ~files[i].isDeleted }

\* C5: GET /files with filter = trash returns a file of the caller iff it has
\* isDeleted = true, and no other filter value returns a file with
\* isDeleted = true.
C5_TrashExclusive ==
  /\ (resp.op = "files" /\ resp.status = 200) =>
       IF resp.val.filter = "trash"
       THEN /\ \A i \in resp.val.files : files[i].isDeleted
            /\ resp.val.search = << >> => resp.val.files = trashedFiles(resp.user)
       ELSE \A i \in resp.val.files : ~files[i].isDeleted
  /\ \A u \in Users, search \in Searches, filter \in Filters \ {"trash"} :
       \A i \in find(buildQuery(u, filter, search)) : ~files[i].isDeleted

categoryOf(filter) ==
  IF filter = "images" THEN "image"
  ELSE IF filter = "videos" THEN "video"
  ELSE IF filter = "pdfs" THEN "pdf"
  ELSE "document"

\* C6: for every filter and search value GET /files returns only files whose
\* userId is the caller's; filter = all returns exactly the caller's files with
\* isDeleted = false, starred exactly those that are also starred, and a type
\* filter exactly those whose fileType is the mapped category.
C6_OwnerScopedLiveOnly ==
  /\ \A u \in Users, filter \in Filters, search \in Searches :
       LET r == find(buildQuery(u, filter, search)) IN
       /\ r \subseteq ownedFiles(u)
       /\ (filter = "all" /\ search = << >>) => r = liveFiles(u)
       /\ (filter = "starred" /\ search = << >>) =>
            r = { i \in liveFiles(u) : files[i].isStarred }
       /\ (filter \in {"images", "videos", "pdfs", "docs"} /\ search = << >>) =>
            r = { i \in liveFiles(u) : files[i].fileType = categoryOf(filter) }
  /\ (resp.op = "files" /\ resp.status = 200) =>
       /\ resp.val.files \subseteq ownedFiles(resp.user)
       /\ (resp.val.filter = "all" /\ resp.val.search = << >>) =>
            resp.val.files = liveFiles(resp.user)

\* a listing that returns a file while another user's file exists
C6_Witness ==
  /\ resp.op = "files" /\ resp.status = 200
  /\ resp.val.filter = "all" /\ resp.val.search = << >>
  /\ resp.val.files # {}
  /\ \E i \in DOMAIN files : files[i].userId # resp.user

\* C7: soft-delete followed by restore leaves every field of the file's record
\* equal to its value before the soft-delete (isDeleted = false, deletedAt unset).
C7_RestoreRoundTrip ==
  (resp.op = "restore" /\ resp.status = 200) =>
     /\ files[resp.id] = snap[resp.id]
     /\ ~files[resp.id].isDeleted
     /\ files[resp.id].deletedAt = Unset

\* a starred, shared file that went through the trash and came back
C7_Witness ==
  /\ resp.op = "restore" /\ resp.status = 200
  /\ files[resp.id].isStarred
  /\ files[resp.id].shareToken # NoToken

\* C8: permanent-delete of a live file answers 404 and changes no File or User
\* state; permanent-delete of a trashed owned file succeeds, and from then on
\* the file is in no live listing and no trash listing and cannot be restored.
C8_PermanentDeletePrecondition ==
  [][ /\ \A s \in Users, id \in Ids :
           PermanentDelete(s, id, FALSE) =>
             /\ (id \in DOMAIN files /\ ~files[id].isDeleted) =>
                  (resp'.status = 404 /\ UNCHANGED <<files, storageUsed>>)
             /\ (id \in DOMAIN files /\ files[id].isDeleted /\ files[id].userId = s) =>
                  (resp'.status = 200 /\ id \notin DOMAIN files')
      /\ \A id \in Ids :
           (id < nextId /\ id \notin DOMAIN files) =>
             /\ id \notin DOMAIN files'
             /\ \A s \in Users : RestoreFile(s, id) => resp'.status = 404
             /\ (resp'.op = "files" /\ resp'.status = 200) => id \notin resp'.val.files
             /\ (resp'.op = "trash" /\ resp'.status = 200) => id \notin resp'.val
    ]_vars

\* a permanent-delete refused for the caller's live file, after another file
\* was purged
C8_Witness ==
  /\ resp.op = "permanentDelete" /\ resp.status = 404
  /\ resp.id \in DOMAIN files
  /\ files[resp.id].userId = resp.user
  /\ ~files[resp.id].isDeleted
  /\ \E id \in Ids : id < nextId /\ id \notin DOMAIN files

\* C9: a share-issue right after a share-issue of the same file returns the
\* same token and leaves the record unchanged; a share-issue right after a
\* revoke of the same file returns a token different from the revoked one.
C9_ShareIdempotent ==
  [][ \A s \in Users, id \in Ids :
        ShareIssue(s, id) =>
          /\ (resp.op = "share" /\ resp.status = 200 /\ resp.id = id /\ resp.user = s) =>
               (resp'.status = 200 /\ resp'.val = resp.val /\ files' = files)
          /\ ( /\ resp.op = "unshare" /\ resp.status = 200 /\ resp.id = id
               /\ resp.user = s /\ resp.val # NoToken ) =>
               (resp'.status = 200 /\ resp'.val # resp.val)
    ]_vars

\* issued twice in a row, on a file whose earlier token was revoked
C9_Witness ==
  /\ resp.op = "share" /\ resp.status = 200
  /\ before.op = "share" /\ before.id = resp.id /\ before.val = resp.val
  /\ \E p \in revoked : p[1] = resp.id /\ p[2] # resp.val

\* C10: the token of a shared live file resolves to that file; a revoked token
\* resolves to nothing (404) in every later state, also after the file is
\* shared again.
C10_ShareThenRevoke ==
  /\ (resp.op = "share" /\ resp.status = 200) => resolveShare(resp.val) = resp.id
  /\ \A i \in DOMAIN files :
       (files[i].shareToken # NoToken /\ ~files[i].isDeleted) =>
          resolveShare(files[i].shareToken) = i
  /\ \A p \in revoked : resolveShare(p[2]) = NoId
  /\ (resp.op = "getShare" /\ \E p \in revoked : p[2] = resp.val) => resp.status = 404

\* a revoked link answered 404 while its file is shared again
C10_Witness ==
  /\ resp.op = "getShare" /\ resp.status = 404
  /\ \E p \in revoked :
       /\ p[2] = resp.val
       /\ p[1] \in DOMAIN files
       /\ files[p[1]].shareToken # NoToken
       /\ ~files[p[1]].isDeleted

\* C11: resolveShare(token) returns a file only if that file now has
\* shareToken = token, isPublic = true and isDeleted = false; the link of a
\* shared file answers 404 while the file is in trash and after the file is
\* permanently deleted.
C11_ResolveShare ==
  /\ \A token \in Tokens :
       resolveShare(token) # NoId =>
         /\ resolveShare(token) \in DOMAIN files
         /\ files[resolveShare(token)].shareToken = token
         /\ files[resolveShare(token)].isPublic
         /\ ~files[resolveShare(token)].isDeleted
  /\ (resp.op = "getShare" /\ resp.status = 200) =>
       /\ resp.id \in DOMAIN files
       /\ files[resp.id].shareToken = resp.val
       /\ files[resp.id].isPublic
       /\ ~files[resp.id].isDeleted
  /\ \A i \in DOMAIN files :
       (files[i].isDeleted /\ files[i].shareToken # NoToken) =>
          resolveShare(files[i].shareToken) = NoId
  /\ \A token \in purged : resolveShare(token) = NoId
  /\ ( /\ resp.op = "getShare"
       /\ \/ resp.val \in purged
          \/ \E i \in DOMAIN files : files[i].isDeleted /\ files[i].shareToken = resp.val )
       => resp.status = 404

\* the link of a shared file in trash answered 404, after another shared file
\* was permanently deleted
C11_Witness ==
  /\ resp.op = "getShare" /\ resp.status = 404
  /\ \E i \in DOMAIN files :
       files[i].isDeleted /\ files[i].isPublic /\ files[i].shareToken = resp.val
  /\ purged # {}

\* the file id names no file of user s
notOwned(s, id) == id \notin DOMAIN files \/ files[id].userId # s

blankName(n) ==
  n.kind # "string" \/ \A k \in 1..Len(n.text) : n.text[k] \in Whitespace

\* the requests that address one file by its id
FileOps == {"rename", "star", "delete", "restore", "permanentDelete", "share", "unshare"}

\* C12 as stated: every rename, star, soft-delete, restore, permanent-delete,
\* share and revoke request of user A for a file of user B answers 404 and
\* leaves the File records, the blob store and storageUsed unchanged.
C12_ForeignAlways404 ==
  [][ ( /\ resp'.op \in FileOps
        /\ resp'.id \in DOMAIN files
        /\ files[resp'.id].userId # resp'.user ) =>
           /\ resp'.status = 404
           /\ UNCHANGED <<files, blobs, storageUsed>>
    ]_vars

\* C12 as amended: such a request gets the response the same request gets for
\* an id that names no file, which is 404, or 400 for a rename with a blank
\* name, and leaves the File records, the blob store and storageUsed unchanged.
C12_OwnershipIsolation ==
  [][ (resp'.op \in FileOps /\ notOwned(resp'.user, resp'.id)) =>
           /\ resp'.status =
                IF resp'.op = "rename" /\ blankName(resp'.val) THEN 400 ELSE 404
           /\ resp'.op # "rename" => resp'.val = 0
           /\ UNCHANGED <<files, blobs, storageUsed>>
    ]_vars

\* a rename of another user's shared live file answered 404
C12_Witness ==
  /\ resp.op = "rename" /\ resp.status = 404
  /\ resp.id \in DOMAIN files
  /\ files[resp.id].userId # resp.user
  /\ ~files[resp.id].isDeleted
  /\ files[resp.id].shareToken # NoToken

\* C13: a rename whose name is missing, empty or only whitespace fails with
\* 400 and changes no file; a rename with any other name on a live file of the
\* caller sets name to the new name without its leading and trailing
\* whitespace and changes no other field.
C13_RenameRejectsBlank ==
  [][ resp'.op = "rename" =>
        LET n == resp'.val
            id == resp'.id
        IN
        /\ blankName(n) => (resp'.status = 400 /\ files' = files)
        /\ (~blankName(n) /\ ~notOwned(resp'.user, id) /\ ~files[id].isDeleted) =>
             LET nm == files'[id].name IN
             /\ resp'.status = 200
             /\ files' = [files EXCEPT ![id].name = nm]
             /\ nm # << >>
             /\ nm[1] \notin Whitespace /\ nm[Len(nm)] \notin Whitespace
             /\ \E a \in 0..(Len(n.text) - Len(nm)) :
                  /\ SubSeq(n.text, a + 1, a + Len(nm)) = nm
                  /\ \A k \in 1..Len(n.text) :
                       (k <= a \/ k > a + Len(nm)) => n.text[k] \in Whitespace
    ]_vars

\* a whitespace-only rename refused for a file that was renamed before
C13_Witness ==
  /\ resp.op = "rename" /\ resp.status = 400
  /\ resp.val.kind = "string" /\ resp.val.text # << >>
  /\ resp.id \in DOMAIN files
  /\ files[resp.id].userId = resp.user
  /\ files[resp.id].name = <<"c", " ", "d">>

\* C14: a registration whose blobName is not in the blob store, or whose
\* existence check errors, fails with 400, creates no File record and leaves
\* storageUsed unchanged; a record created by registration names a blob that
\* was in the store when it was checked.
C14_RegistrationVerified ==
  [][ resp'.op = "register" => \A r \in RegisterRequests :
        (r[1] = resp'.user /\ UploadRegister(r[1], r[2], r[3], r[4], r[5])) =>
          /\ (r[4] \notin blobs \/ r[5]) =>
               (resp'.status = 400 /\ UNCHANGED <<files, storageUsed>>)
          /\ files' # files =>
               /\ r[4] \in blobs /\ ~r[5]
               /\ DOMAIN files' = DOMAIN files \cup {resp'.id}
               /\ files'[resp'.id].blobName = r[4]
    ]_vars

\* a registration refused by the verification while the caller has a file
C14_Witness ==
  /\ resp.op = "register" /\ resp.status = 400
  /\ resp.val = "File upload verification failed"
  /\ ownedFiles(resp.user) # {}

\* C15: a registration is rejected with 400, creating no File record and
\* changing no storageUsed, if one of fileName, originalName, fileSize,
\* mimeType, blobName, blobUrl is missing; a registration carrying all six
\* for a blob in the store succeeds, persists the File record and adds
\* fileSize to storageUsed.
C15_RegistrationValidation ==
  [][ resp'.op = "register" => \A r \in RegisterRequests :
        (r[1] = resp'.user /\ UploadRegister(r[1], r[2], r[3], r[4], r[5])) =>
          /\ r[3] # "none" =>
               (resp'.status = 400 /\ UNCHANGED <<files, storageUsed>>)
          /\ (r[3] = "none" /\ r[4] \in blobs /\ ~r[5]) =>
               /\ resp'.status = 200
               /\ DOMAIN files' = DOMAIN files \cup {resp'.id}
               /\ resp'.id \notin DOMAIN files
               /\ files'[resp'.id].size = r[2].size
               /\ storageUsed' =
                    [storageUsed EXCEPT ![r[1]] = storageUsed[r[1]] + r[2].size]
    ]_vars

\* C16: when the blob delete of a soft-delete or a permanent-delete fails, or
\* the blob is already gone, the request succeeds, and the File records and
\* storageUsed it leaves are those of the request with a successful delete.
C16_DeleteSwallowsBlobFailure ==
  [][ \A s \in Users, id \in Ids, providerError \in BOOLEAN :
        (id \in DOMAIN files /\ files[id].userId = s) =>
          /\ (DeleteFile(s, id, providerError) /\ ~files[id].isDeleted) =>
               /\ resp'.status = 200
               /\ files' = [files EXCEPT ![id].isDeleted = TRUE]
               /\ storageUsed' =
                    [storageUsed EXCEPT ![s] = Max(0, storageUsed[s] - files[id].size)]
          /\ (PermanentDelete(s, id, providerError) /\ files[id].isDeleted) =>
               /\ resp'.status = 200
               /\ files' = RemoveDoc(id)
               /\ storageUsed' =
                    [storageUsed EXCEPT ![s] = Max(0, storageUsed[s] - files[id].size)]
    ]_vars

\* a soft-delete that succeeded although the blob is still in the store
C16_Witness ==
  /\ resp.op = "delete" /\ resp.status = 200
  /\ resp.id \in DOMAIN files
  /\ files[resp.id].isDeleted
  /\ files[resp.id].blobName \in blobs

\* C17: when storing the bytes fails during a server-proxied upload the
\* request fails with 500, no File record is created and storageUsed is
\* unchanged.
C17_UploadBlobFailureFatal ==
  [][ \A s \in Users, d \in Catalogue :
        (Upload(s, d, FALSE, TRUE) /\ d.size <= maxSize) =>
           /\ resp'.status = 500
           /\ UNCHANGED <<files, storageUsed, blobs>>
    ]_vars

\* an upload that failed in the blob store after an earlier one succeeded
C17_Witness ==
  /\ resp.op = "upload" /\ resp.status = 500
  /\ ownedFiles(resp.user) # {}

youTubeFiles(u) == { i \in liveFiles(u) : files[i].isYouTube }

\* C18: POST /youtube with a URL the caller already has a live file for
\* answers 409 and creates no record; a user never has two live files with the
\* same YouTube URL; a YouTube reference has size 0, and neither adding it nor
\* deleting it changes storageUsed.
C18_YouTubeNoDuplicate ==
  [][ /\ resp'.op = "youtube" =>
           \A r \in YouTubeRequests :
             ( /\ AddYouTube(r[1], r[2], r[3], r[4], r[5]) /\ ~r[5]
               /\ \E i \in liveFiles(r[1]) : files[i].blobUrl = YouTubeUrlOf(r[3]) ) =>
                (resp'.status = 409 /\ files' = files)
      /\ \A u \in Users : \A i, j \in youTubeFiles(u)' :
           files'[i].blobUrl = files'[j].blobUrl => i = j
      /\ \A i \in DOMAIN files' : files'[i].isYouTube => files'[i].size = 0
      /\ resp'.op = "youtube" => storageUsed' = storageUsed
      /\ ( /\ resp'.op \in {"delete", "permanentDelete"} /\ resp'.status = 200
           /\ files[resp'.id].isYouTube ) => storageUsed' = storageUsed
    ]_vars

\* C19: storageUsed is never negative, under register, soft-delete, restore
\* and permanent-delete requests where the registered fileSize is any
\* non-zero integer.
C19_StorageUsedNonNegative == \A u \in Users : storageUsed[u] >= 0

\* C20: every endpoint but GET /share/{token}, called without a session,
\* answers 401 and changes no File record, no blob and no storageUsed.
C20_Unauthorized ==
  [][ ( /\ resp'.user = Anon /\ resp'.op \notin {"getShare", "none"}
        /\ ~ \E b \in BlobNames : ClientPutBlob(b) ) =>
        /\ resp'.status = 401
        /\ UNCHANGED <<files, blobs, storageUsed, sasIssued>>
    ]_vars

\* a permanent-delete without a session refused for a file in trash
C20_Witness ==
  /\ resp.op = "permanentDelete" /\ resp.user = Anon /\ resp.status = 401
  /\ resp.id \in DOMAIN files
  /\ files[resp.id].isDeleted

\* C21: in every reachable state a File record has deletedAt set if and only
\* if isDeleted = true.
C21_DeletedAtTracksFlag ==
  \A i \in DOMAIN files : (files[i].deletedAt # Unset) <=> files[i].isDeleted

\* the request answered in this step addresses a trashed file of its caller
onTrashed ==
  /\ resp'.id \in DOMAIN files
  /\ files[resp'.id].userId = resp'.user
  /\ files[resp'.id].isDeleted

\* restore on a live file answers 404, and only restore and permanent-delete
\* of a trashed file change its record
C22_OnlyRestoreAndPurge ==
  /\ ( /\ resp'.op = "restore" /\ resp'.id \in DOMAIN files
       /\ ~files[resp'.id].isDeleted ) => (resp'.status = 404 /\ files' = files)
  /\ \A i \in DOMAIN files :
       (files[i].isDeleted /\ (i \notin DOMAIN files' \/ files'[i] # files[i])) =>
          (resp'.op \in {"restore", "permanentDelete"} /\ resp'.id = i)

\* C22 as stated: rename, star, share, revoke and soft-delete of a trashed file
\* answer 404 and leave its record unchanged; restore on a live file answers
\* 404; only restore and permanent-delete change a trashed file.
C22_TrashedAlways404 ==
  [][ /\ (resp'.op \in {"rename", "star", "share", "unshare", "delete"} /\ onTrashed) =>
           (resp'.status = 404 /\ files' = files)
      /\ C22_OnlyRestoreAndPurge
    ]_vars

\* C22 as amended: the same, except that a rename whose name is blank answers
\* 400 (the name is checked before the file is looked up).
C22_TrashedFrozen ==
  [][ /\ (resp'.op \in {"rename", "star", "share", "unshare", "delete"} /\ onTrashed) =>
           /\ resp'.status =
                IF resp'.op = "rename" /\ blankName(resp'.val) THEN 400 ELSE 404
           /\ files' = files
      /\ C22_OnlyRestoreAndPurge
    ]_vars

\* a rename refused for the caller's own starred, shared file in trash
C22_Witness ==
  /\ resp.op = "rename" /\ resp.status = 404
  /\ resp.id \in DOMAIN files
  /\ files[resp.id].userId = resp.user
  /\ files[resp.id].isDeleted
  /\ files[resp.id].isStarred
  /\ files[resp.id].shareToken # NoToken

\* the files of pages 1..n of a listing, one page after the other
RECURSIVE pagesUpTo(_, _, _)
pagesUpTo(q, n, limit) ==
  IF n = 0 THEN << >>
  ELSE pagesUpTo(q, n - 1, limit) \o paginate(q, n, limit).files

C24_AdmissionAdvisory ==
  [][ \/ \E b \in BlobNames : ClientPutBlob(b)
      \/ /\ resp'.op = "sas" =>
           /\ resp'.status = 200 <=>
                storageUsed[resp'.user] + BigDoc.size <= storageLimit(resp'.user)
           /\ storageUsed' = storageUsed
         /\ resp'.op = "register" =>
              /\ resp'.status \in {200, 400, 500}
              /\ resp'.status = 400 => resp'.val = "File upload verification failed"
              /\ resp'.status = 200 =>
                   storageUsed'[resp'.user] = storageUsed[resp'.user] + BigDoc.size
              /\ \A b \in BlobNames :
                   ( /\ UploadRegister(resp'.user, BigDoc, "none", b, FALSE)
                     /\ b \in blobs
                     /\ \A i \in DOMAIN files : files[i].blobName # b )
                   => resp'.status = 200
    ]_vars

\* two files of one user, each within the limit alone, both admitted before
\* either was registered, both registered, and the counter above the limit
C24_Witness ==
  /\ resp.op = "register" /\ resp.status = 200
  /\ \E i, j \in DOMAIN files :
       /\ i # j
       /\ files[i].userId = resp.user /\ files[j].userId = resp.user
       /\ {files[i].blobName, files[j].blobName} \subseteq sasIssued
       /\ files[i].size <= storageLimit(resp.user)
       /\ files[j].size <= storageLimit(resp.user)
       /\ files[i].size + files[j].size > storageLimit(resp.user)
  /\ storageUsed[resp.user] > storageLimit(resp.user)

doneWith(p, op, status) ==
  /\ inflight[p].op = op /\ inflight[p].pc = "done" /\ inflight[p].status = status

\* C23: lost update on the quota counter. Every request saves the counter as
\* the value it read plus its own change, whatever the counter holds by then;
\* so once requests of one user have saved, the counter is the value one of
\* them wrote, and the other's change is missing from it when both had read
\* the same value.
C23_LostUpdate ==
  /\ \A p \in Procs : inflight[p].saved =>
       inflight[p].wrote =
         IF inflight[p].op = "register" THEN inflight[p].read + inflight[p].size
         ELSE Max(0, inflight[p].read - inflight[p].size)
  /\ \A u \in Users :
       LET savers == {p \in Procs : inflight[p].saved /\ inflight[p].user = u}
       IN savers # {} => storageUsed[u] \in {inflight[p].wrote : p \in savers}

\* two registrations of one user, both answered 200, both files recorded, and
\* the counter grew by one file's size only
C23_Witness ==
  \E p, q \in Procs :
    /\ p # q
    /\ doneWith(p, "register", 200) /\ doneWith(q, "register", 200)
    /\ inflight[p].user = inflight[q].user
    /\ inflight[p].read = inflight[q].read
    /\ {inflight[p].id, inflight[q].id} \subseteq DOMAIN files
    /\ storageUsed[inflight[p].user] = inflight[p].read + inflight[p].size
    /\ storageUsed[inflight[p].user] <
         inflight[p].read + inflight[p].size + inflight[q].size

\* a registration and a soft-delete of one user, both answered 200, and the
\* counter shows the registration only
C23_RegisterDeleteRace ==
  \E p, q \in Procs :
    /\ doneWith(p, "register", 200) /\ doneWith(q, "delete", 200)
    /\ inflight[p].user = inflight[q].user
    /\ inflight[p].read = inflight[q].read
    /\ storageUsed[inflight[p].user] = inflight[p].read + inflight[p].size

\* C28: when two soft-deletes, or two permanent-deletes, of one file are in
\* flight together and both succeed, the owner's storageUsed has gone down by
\* the file's size once: it is the value before the two requests (the larger
\* of the two values they read) minus the size, not below zero.
C28_ReleasedOnce ==
  \A p, q \in Procs :
    \A op \in {"delete", "permanentDelete"} :
      ( /\ p # q
        /\ doneWith(p, op, 200) /\ doneWith(q, op, 200)
        /\ inflight[p].id = inflight[q].id )
      => storageUsed[inflight[p].user] =
           Max(0, Max(inflight[p].read, inflight[q].read) - inflight[p].size)

\* C29: a blob is charged at most once. No two File records share a blobName,
\* whether registrations come one at a time or together; a registration that
\* finds a record with its blobName ends with 500, creates no record and
\* writes no counter; one at a time it is answered 400 (the blob is gone) or
\* 500 and changes neither the records nor the counters.
C29_BlobChargedOnce ==
  [][ /\ \A i, j \in DOMAIN files' :
           files'[i].blobName = files'[j].blobName => i = j
      /\ \A p \in Procs :
           (inflight'[p].op = "register" /\ inflight'[p].pc = "done") =>
             /\ inflight'[p].status \in {200, 400, 500}
             /\ inflight'[p].status # 200 =>
                  (~inflight'[p].saved /\ inflight'[p].id = NoId)
             /\ inflight'[p].status = 200 =>
                  /\ inflight'[p].saved
                  /\ \A q \in Procs \ {p} :
                       (inflight'[q].op = "register" /\ inflight'[q].pc = "done"
                          /\ inflight'[q].blob = inflight'[p].blob)
                       => inflight'[q].status # 200
      /\ \A p \in Procs :
           (at(p, "register", "saveFile") /\ inflight'[p] # inflight[p]
              /\ \E i \in DOMAIN files : files[i].blobName = inflight[p].blob)
           => (doneWith(p, "register", 500)' /\ files' = files
                 /\ storageUsed' = storageUsed)
      /\ \A b \in BlobNames :
           ( /\ NoneInFlight
             /\ UploadRegister("u1", AnyDoc, "none", b, FALSE)
             /\ \E i \in DOMAIN files : files[i].blobName = b )
           => (resp'.status \in {400, 500} /\ files' = files
                 /\ storageUsed' = storageUsed)
    ]_vars

\* two registrations of one blob in flight together: one recorded, one refused
C29_Witness ==
  \E p, q \in Procs :
    /\ doneWith(p, "register", 200) /\ doneWith(q, "register", 500)
    /\ inflight[p].blob = inflight[q].blob
    /\ inflight[p].user # inflight[q].user
    /\ Cardinality({i \in DOMAIN files : files[i].blobName = inflight[p].blob}) = 1
    /\ storageUsed[inflight[q].user] = inflight[q].read

\* C25: a server-proxied upload rejected for quota leaves the blob store
\* unchanged, creates no File record and leaves storageUsed unchanged.
C25_QuotaRejectStoresNothing ==
  [][ resp'.op = "upload" =>
        \A r \in UploadRequests :
          ( /\ Upload(r[1], r[2], r[3], FALSE)
            /\ ~r[3] /\ r[2].size <= maxSize
            /\ storageUsed[r[1]] + r[2].size > storageLimit(r[1]) ) =>
             /\ resp'.status = 400
             /\ UNCHANGED <<blobs, files, storageUsed>>
    ]_vars

\* C26: provider failures aside, every live blob-backed File record, also one
\* that was soft-deleted and restored, and every trashed one has its blobName
\* in the blob store.
C26_RecordsKeepBlob ==
  \A i \in DOMAIN files : ~files[i].isYouTube => files[i].blobName \in blobs

\* C30: POST /youtube with type, url and title succeeds whenever the caller
\* has no live file with that URL, also when the caller's earlier entry for
\* the video is in trash or another user holds the video.
C30_YouTubeAlwaysAddable ==
  [][ resp'.op = "youtube" =>
        \A r \in YouTubeRequests :
          ( /\ AddYouTube(r[1], r[2], r[3], r[4], r[5]) /\ ~r[5]
            /\ \A i \in liveFiles(r[1]) : files[i].blobUrl # YouTubeUrlOf(r[3]) ) =>
             (resp'.status = 200 /\ resp'.id \in DOMAIN files')
    ]_vars

====
